---- MODULE Spec2Model ----
(***************************************************************************)
(* A model of scripts/perception_policy_train.py (load_dataset, main) and  *)
(* of motion_planning/utils.py (parse_arguments).                          *)
(*                                                                         *)
(* Four specifications share the variables:                                *)
(*   SpecLoad   load_dataset with debug off: the loop over the episode     *)
(*              files, the concatenation, the normalization, the camera    *)
(*              selection and the returned TensorDataset;                  *)
(*   SpecDebug  load_dataset's debug subsampling of the assembled arrays;  *)
(*   SpecMain   main: the assertion, the set-up, the epoch loop;           *)
(*   SpecArgs   parse_arguments and the attributes of args that main reads.*)
(* Spec is SpecMain.                                                       *)
(***************************************************************************)
EXTENDS Integers, Sequences, FiniteSets, TLC

\* ------------------------------------------------------------------ bounds
\* most samples over all episode files of one data directory
MaxSamples == 2
\* raw camera parameters are drawn from 1..MaxCam
MaxCam == 2
\* args.num_epoch is drawn from 0..MaxEpoch
MaxEpoch == 4
\* the mean-squared error of a batch is drawn from 1..MaxLoss
MaxLoss == 5
\* the dataset main trains on has at most MaxLen samples
MaxLen == 4
\* args.batch_size is drawn from 1..MaxBatch
MaxBatch == 2

VARIABLES
    \* ---- load_dataset
    l_pc,              \* position in load_dataset
    data_files,        \* os.listdir: per file, its number of samples
    fixed_camera,      \* argument
    debug,             \* argument
    latents,           \* list of per-file arrays, then one array (sample ids)
    camera_distances,  \* list of per-file arrays, then one array, then normalized
    azimuths,
    elevations,
    target_coords,     \* list of per-file arrays, then one array (sample ids)
    inputs,            \* the rows handed to torch.Tensor
    indices,           \* the debug draw
    dataset            \* the returned TensorDataset, or NoDataset

load_vars == <<l_pc, data_files, fixed_camera, debug, latents, camera_distances,
               azimuths, elevations, target_coords, inputs, indices, dataset>>

VARIABLES
    \* ---- main
    m_pc,              \* position in main
    model_index,       \* args.model_index
    num_epoch,         \* args.num_epoch
    batch_size,        \* args.batch_size
    decoder_built,     \* ROSTrajectoryVAE constructed, its decoder taken
    dataset_len,       \* dataset.__len__(), NotLoaded before line 100
    train_size,
    test_size,
    epoch,             \* the loop variable of line 129
    params,            \* the version of the predictor's and the decoder's parameters
    policy_mode,       \* policy.train() / policy.eval()
    best_val,
    train_losses,      \* number of losses appended in this epoch's training
    avg_train_losses,  \* number of entries
    val_losses,        \* the losses of this epoch's validation batches
    avg_val_losses,    \* the mean validation loss of every finished epoch
    end_poses,         \* per appended array, its number of rows
    target_poses,      \* per appended array, its number of rows
    train_poses,       \* number of rows
    train_targets,     \* number of rows
    scatter,           \* the rows of the arrays handed to plot_scatter
    checkpoint,        \* model.pth.tar: NoFile, or the parameters it holds
    writes             \* the epochs (numbered from 1) that called torch.save

main_vars == <<m_pc, model_index, num_epoch, batch_size, decoder_built, dataset_len,
               train_size, test_size, epoch, params, policy_mode, best_val,
               train_losses, avg_train_losses, val_losses, avg_val_losses,
               end_poses, target_poses, train_poses, train_targets, scatter,
               checkpoint, writes>>

VARIABLES
    \* ---- parse_arguments and main's reads of args
    a_pc,              \* position: in parse_arguments, then in main
    flags,             \* the keyword arguments of parse_arguments
    argv,              \* the option strings on the command line
    args,              \* the Namespace: its attributes, NoArgs before the parse
    read_i             \* how many of main's reads of args have succeeded

args_vars == <<a_pc, flags, argv, args, read_i>>

vars == <<load_vars, main_vars, args_vars>>
not_load == <<main_vars, args_vars>>
not_main == <<load_vars, args_vars>>
not_args == <<load_vars, main_vars>>

\* ------------------------------------------------------------- arithmetic
RECURSIVE Sum(_)
Sum(s) == IF s = <<>> THEN 0 ELSE Head(s) + Sum(Tail(s))

\* a variant of Concatenate that keeps the first file's array only
FirstArrayOnly(arrays) == IF arrays = <<>> THEN <<>> ELSE Head(arrays)

RECURSIVE Concatenate(_)
\* np.concatenate of a list of one-dimensional arrays
Concatenate(arrays) ==
    IF arrays = <<>> THEN <<>> ELSE Head(arrays) \o Concatenate(Tail(arrays))

Range(s) == {s[i] : i \in 1..Len(s)}

\* np.min, np.max of a non-empty integer array
Min(xs) == CHOOSE m \in Range(xs) : \A x \in Range(xs) : m <= x
Max(xs) == CHOOSE m \in Range(xs) : \A x \in Range(xs) : m >= x

\* A float that is the quotient of two small integers: num/den, and NaN when
\* den = 0 (the only quotient with den = 0 that arises is 0/0).
Quot(n, d) == [num |-> n, den |-> d]
IsNaN(q) == q.den = 0
\* IEEE ==: never true of a NaN
FloatEq(a, b) == ~IsNaN(a) /\ ~IsNaN(b) /\ a.num * b.den = b.num * a.den
\* 0 <= q <= 1 (den > 0 for every quotient that is not NaN)
InUnit(q) == ~IsNaN(q) /\ 0 <= q.num /\ q.num <= q.den
IsZero(q) == ~IsNaN(q) /\ q.num = 0
IsOne(q) == ~IsNaN(q) /\ q.num = q.den

\* a variant of Normalize that divides by the maximum and subtracts nothing
NormalizeNoShift(xs) ==
    [i \in 1..Len(xs) |-> Quot(xs[i], Max(xs))]

\* (x - np.min(x)) / (np.max(x) - np.min(x)), lines 49-51
Normalize(xs) ==
    [i \in 1..Len(xs) |-> Quot(xs[i] - Min(xs), Max(xs) - Min(xs))]

\* ------------------------------------------------------------ load_dataset
CamValues == 1..MaxCam
\* line 72: the number of indices the debug branch draws
DebugSamples == 10
NoDataset == [none |-> TRUE]

\* a sample is identified by its file and its row in the file: its latent
\* (dataset[0][:, 0, :]) and its target coordinate (dataset[5]) carry that id
SampleId(f, r) == [file |-> f, row |-> r]

RECURSIVE Compositions(_)
\* the sequences of positive per-file sample counts whose sum is n
Compositions(n) ==
    IF n = 0 THEN {<<>>}
    ELSE UNION {{<<k>> \o c : c \in Compositions(n - k)} : k \in 1..n}

LoadStart ==
    /\ l_pc = "for"
    /\ data_files \in UNION {Compositions(n) : n \in 0..MaxSamples}
    /\ fixed_camera \in BOOLEAN
    /\ debug = FALSE
    /\ latents = <<>>
    /\ camera_distances = <<>>
    /\ azimuths = <<>>
    /\ elevations = <<>>
    /\ target_coords = <<>>
    /\ inputs = <<>>
    /\ indices = <<>>
    /\ dataset = NoDataset

\* one iteration of "for file in data_files", lines 30-38: np.load reads the
\* file's arrays, which share the file's sample count
LoadFile ==
    /\ l_pc = "for"
    /\ Len(latents) < Len(data_files)
    /\ LET f == Len(latents) + 1
           n == data_files[f]
       IN \E d \in [1..n -> CamValues], a \in [1..n -> CamValues],
             e \in [1..n -> CamValues] :
            /\ latents' = Append(latents, [r \in 1..n |-> SampleId(f, r)])
            /\ camera_distances' = Append(camera_distances, d)
            /\ azimuths' = Append(azimuths, a)
            /\ elevations' = Append(elevations, e)
            /\ target_coords' = Append(target_coords, [r \in 1..n |-> SampleId(f, r)])
    /\ UNCHANGED <<not_load, l_pc, data_files, fixed_camera, debug, inputs, indices, dataset>>

\* lines 42-46: np.concatenate raises ValueError on an empty list
ConcatenateArrays ==
    /\ l_pc = "for"
    /\ Len(latents) = Len(data_files)
    /\ IF latents = <<>>
       THEN /\ l_pc' = "ValueError"
            /\ UNCHANGED <<not_load, latents, camera_distances, azimuths, elevations,
                           target_coords>>
       ELSE /\ l_pc' = "normalize"
            /\ latents' = Concatenate(latents)
            /\ camera_distances' = Concatenate(camera_distances)
            /\ azimuths' = Concatenate(azimuths)
            /\ elevations' = Concatenate(elevations)
            /\ target_coords' = Concatenate(target_coords)
    /\ UNCHANGED <<not_load, data_files, fixed_camera, debug, inputs, indices, dataset>>

\* lines 49-51
NormalizeArrays ==
    /\ l_pc = "normalize"
    /\ l_pc' = "select"
    /\ camera_distances' = Normalize(camera_distances)
    /\ azimuths' = Normalize(azimuths)
    /\ elevations' = Normalize(elevations)
    /\ UNCHANGED <<not_load, data_files, fixed_camera, debug, latents, target_coords,
                   inputs, indices, dataset>>

\* lines 56-62: the boolean mask of the fixed-camera branch
FixedIndices(cd, az, el) ==
    LET distance == cd[1]
        azimuth == az[1]
        elevation == el[1]
    IN [i \in 1..Len(cd) |-> /\ FloatEq(cd[i], distance)
                             /\ FloatEq(el[i], azimuth)
                             /\ FloatEq(az[i], elevation)]

RECURSIVE MaskFrom(_, _, _)
MaskFrom(xs, mask, i) ==
    IF i > Len(xs) THEN <<>>
    ELSE (IF mask[i] THEN <<xs[i]>> ELSE <<>>) \o MaskFrom(xs, mask, i + 1)

\* xs[mask], boolean-mask indexing
Masked(xs, mask) == MaskFrom(xs, mask, 1)

\* line 68: every row is the latent followed by the three camera scalars
VariableInputs(lat, cd, az, el) ==
    [i \in 1..Len(lat) |-> [latent |-> lat[i], distance |-> cd[i],
                            azimuth |-> az[i], elevation |-> el[i]]]

\* lines 53-68
SelectInputs ==
    /\ l_pc = "select"
    /\ l_pc' = "debug"
    /\ IF fixed_camera
       THEN LET fixed_indices == FixedIndices(camera_distances, azimuths, elevations)
            IN /\ inputs' = Masked(latents, fixed_indices)
               /\ target_coords' = Masked(target_coords, fixed_indices)
       ELSE /\ inputs' = VariableInputs(latents, camera_distances, azimuths, elevations)
            /\ UNCHANGED target_coords
    /\ UNCHANGED <<not_load, data_files, fixed_camera, debug, latents, camera_distances,
                   azimuths, elevations, indices, dataset>>

\* np.random.random_integers(low, high): the integers low..high, both ends
\* included
RandomIntegers(low, high) == low..high

\* x[indices] with an integer index array (rows are numbered from 0): the row
\* of every index
Take(xs, idx) == [k \in 1..Len(idx) |-> xs[idx[k] + 1]]

\* lines 71-74: the draw of DebugSamples indices, then the two indexings;
\* indexing with an index >= inputs.shape[0] raises IndexError
Subsample ==
    /\ l_pc = "debug"
    /\ debug
    /\ \E idx \in [1..DebugSamples -> RandomIntegers(0, Len(inputs))] :
         /\ indices' = idx
         /\ IF \E k \in 1..DebugSamples : idx[k] >= Len(inputs)
            THEN /\ l_pc' = "IndexError"
                 /\ UNCHANGED <<not_load, inputs, target_coords>>
            ELSE /\ l_pc' = "subsampled"
                 /\ inputs' = Take(inputs, idx)
                 /\ target_coords' = Take(target_coords, idx)
    /\ UNCHANGED <<not_load, data_files, fixed_camera, debug, latents, camera_distances,
                   azimuths, elevations, dataset>>

\* lines 76-79
ReturnDataset ==
    /\ \/ l_pc = "debug" /\ ~debug
       \/ l_pc = "subsampled"
    /\ l_pc' = "returned"
    /\ dataset' = [inputs |-> inputs, target_coord |-> target_coords]
    /\ UNCHANGED <<not_load, data_files, fixed_camera, debug, latents, camera_distances,
                   azimuths, elevations, target_coords, inputs, indices>>

NextLoad ==
    \/ LoadFile
    \/ ConcatenateArrays
    \/ NormalizeArrays
    \/ SelectInputs
    \/ ReturnDataset


\* The debug branch, from line 71 on: load_dataset has assembled, normalized
\* and (variable-camera mode) stacked one episode file of n samples whose
\* three camera parameters take the values 1, 2, .., MaxCam in turn.
CycleCam(n) == [r \in 1..n |-> ((r - 1) % MaxCam) + 1]

DebugStart ==
    /\ l_pc = "debug"
    /\ debug = TRUE
    /\ fixed_camera = FALSE
    /\ indices = <<>>
    /\ dataset = NoDataset
    /\ \E n \in 1..MaxSamples :
         /\ data_files = <<n>>
         /\ latents = [r \in 1..n |-> SampleId(1, r)]
         /\ target_coords = [r \in 1..n |-> SampleId(1, r)]
         /\ camera_distances = Normalize(CycleCam(n))
         /\ azimuths = Normalize(CycleCam(n))
         /\ elevations = Normalize(CycleCam(n))
         /\ inputs = VariableInputs(latents, camera_distances, azimuths, elevations)

NextDebug ==
    \/ Subsample
    \/ ReturnDataset


\* load_dataset is not running
LoadIdle ==
    /\ l_pc = "idle"
    /\ data_files = <<>>
    /\ fixed_camera = FALSE
    /\ debug = FALSE
    /\ latents = <<>>
    /\ camera_distances = <<>>
    /\ azimuths = <<>>
    /\ elevations = <<>>
    /\ target_coords = <<>>
    /\ inputs = <<>>
    /\ indices = <<>>
    /\ dataset = NoDataset

\* -------------------------------------------------------------------- main
ModelIndexes == {-1, 0, 1}
Losses == 1..MaxLoss
NotLoaded == 0 - 1
NoFile == [none |-> TRUE]
\* line 121: the batch size of the validation loader
ValBatchSize == 10000

\* np.inf, line 123
Infinity == [inf |-> TRUE]

\* np.mean of a non-empty list of losses
Mean(ls) == Quot(Sum(ls), Len(ls))

\* a variant of Less that lets a tie count as an improvement
LessOrEqual(a, b) ==
    IF b = Infinity THEN TRUE ELSE a.num * b.den <= b.num * a.den

\* avg_loss < best_val, line 224, of a finite avg_loss
Less(a, b) ==
    IF b = Infinity THEN TRUE ELSE a.num * b.den < b.num * a.den

\* int(dataset.__len__() * 0.7), line 115 (the float product truncates to
\* this quotient for every length the model draws)
TrainSize(len) == (7 * len) \div 10

\* the number of batches a DataLoader (drop_last off) yields
NumBatches(size, bs) == (size + bs - 1) \div bs

\* the number of rows of the j-th batch
BatchRows(size, bs, j) ==
    IF j < NumBatches(size, bs) THEN bs ELSE size - (NumBatches(size, bs) - 1) * bs

\* a variant of AssertionHolds that accepts model_index = 0
AssertionAcceptsZero(mi) == mi >= 0

\* assert(args.model_index > 0), line 89
AssertionHolds(mi) == mi > 0

\* a variant of OptimizerParameters that hands the optimizer the decoder too
AllParameters == {"policy", "decoder"}

\* policy.parameters(), the parameters given to the optimizer, line 111
OptimizerParameters == {"policy"}

\* optimizer.step(), line 164: every parameter of the optimizer is updated
OptimizerStep(p) ==
    [n \in DOMAIN p |-> IF n \in OptimizerParameters THEN p[n] + 1 ELSE p[n]]

\* a variant of EpochsRemain that stops once the validation loss stops falling
EpochsRemainUntilNoImprovement(e, n, avgs) ==
    /\ e < n
    /\ \/ Len(avgs) < 2
       \/ Less(avgs[Len(avgs)], avgs[Len(avgs) - 1])

\* for epoch in range(args.num_epoch), line 129
EpochsRemain(e, n, avgs) == e < n

MainStart ==
    /\ m_pc = "save_arguments"
    /\ model_index \in ModelIndexes
    /\ num_epoch \in 0..MaxEpoch
    /\ batch_size \in 1..MaxBatch
    /\ decoder_built = FALSE
    /\ dataset_len = NotLoaded
    /\ train_size = 0
    /\ test_size = 0
    /\ epoch = 0
    /\ params = [policy |-> 0, decoder |-> 0]
    /\ policy_mode = "train"
    /\ best_val = Infinity
    /\ train_losses = 0
    /\ avg_train_losses = 0
    /\ val_losses = <<>>
    /\ avg_val_losses = <<>>
    /\ end_poses = <<>>
    /\ target_poses = <<>>
    /\ train_poses = 0
    /\ train_targets = 0
    /\ scatter = <<>>
    /\ checkpoint = NoFile
    /\ writes = {}

\* main is not running
MainIdle ==
    /\ m_pc = "idle"
    /\ model_index = 1
    /\ num_epoch = 0
    /\ batch_size = 1
    /\ decoder_built = FALSE
    /\ dataset_len = NotLoaded
    /\ train_size = 0
    /\ test_size = 0
    /\ epoch = 0
    /\ params = [policy |-> 0, decoder |-> 0]
    /\ policy_mode = "train"
    /\ best_val = Infinity
    /\ train_losses = 0
    /\ avg_train_losses = 0
    /\ val_losses = <<>>
    /\ avg_val_losses = <<>>
    /\ end_poses = <<>>
    /\ target_poses = <<>>
    /\ train_poses = 0
    /\ train_targets = 0
    /\ scatter = <<>>
    /\ checkpoint = NoFile
    /\ writes = {}

\* lines 84-87
SaveArguments ==
    /\ m_pc = "save_arguments"
    /\ m_pc' = "assert"
    /\ UNCHANGED <<not_main, model_index, num_epoch, batch_size, decoder_built, dataset_len,
                   train_size, test_size, epoch, params, policy_mode, best_val,
                   train_losses, avg_train_losses, val_losses, avg_val_losses,
                   end_poses, target_poses, train_poses, train_targets, scatter,
                   checkpoint, writes>>

\* line 89
AssertModelIndex ==
    /\ m_pc = "assert"
    /\ m_pc' = IF AssertionHolds(model_index) THEN "decoder" ELSE "AssertionError"
    /\ UNCHANGED <<not_main, model_index, num_epoch, batch_size, decoder_built, dataset_len,
                   train_size, test_size, epoch, params, policy_mode, best_val,
                   train_losses, avg_train_losses, val_losses, avg_val_losses,
                   end_poses, target_poses, train_poses, train_targets, scatter,
                   checkpoint, writes>>

\* lines 91-97: the decoder is constructed with the parameters it was saved with
BuildDecoder ==
    /\ m_pc = "decoder"
    /\ m_pc' = "load_dataset"
    /\ decoder_built' = TRUE
    /\ UNCHANGED <<not_main, model_index, num_epoch, batch_size, dataset_len,
                   train_size, test_size, epoch, params, policy_mode, best_val,
                   train_losses, avg_train_losses, val_losses, avg_val_losses,
                   end_poses, target_poses, train_poses, train_targets, scatter,
                   checkpoint, writes>>

\* lines 100-126: the dataset, the predictor and its optimizer, the split, the
\* two loaders. load_dataset returns a dataset of some length, or raises (the
\* ValueError and the IndexError of SpecLoad and SpecDebug). A DataLoader that
\* shuffles an empty training set raises ValueError in some versions of torch
\* and not in others.
LoadAndSplit ==
    /\ m_pc = "load_dataset"
    /\ \/ \E len \in 0..MaxLen :
            /\ dataset_len' = len
            /\ train_size' = TrainSize(len)
            /\ test_size' = len - TrainSize(len)
            /\ \/ m_pc' = "epoch"
               \/ TrainSize(len) = 0 /\ m_pc' = "ValueError"
       \/ /\ m_pc' \in {"ValueError", "IndexError"}
          /\ UNCHANGED <<dataset_len, train_size, test_size>>
    /\ best_val' = Infinity
    /\ avg_train_losses' = 0
    /\ avg_val_losses' = <<>>
    /\ UNCHANGED <<not_main, model_index, num_epoch, batch_size, decoder_built,
                   epoch, params, policy_mode,
                   train_losses, val_losses,
                   end_poses, target_poses, train_poses, train_targets, scatter,
                   checkpoint, writes>>

\* lines 129-138: the head of the epoch loop
EpochBegin ==
    /\ m_pc = "epoch"
    /\ IF EpochsRemain(epoch, num_epoch, avg_val_losses)
       THEN /\ m_pc' = "train"
            /\ policy_mode' = "train"
            /\ train_losses' = 0
            /\ end_poses' = <<>>
            /\ target_poses' = <<>>
       ELSE /\ m_pc' = "done"
            /\ UNCHANGED <<not_main, policy_mode, train_losses, end_poses, target_poses>>
    /\ UNCHANGED <<not_main, model_index, num_epoch, batch_size, decoder_built, dataset_len,
                   train_size, test_size, epoch, params, best_val,
                   avg_train_losses, val_losses, avg_val_losses,
                   train_poses, train_targets, scatter,
                   checkpoint, writes>>

\* lines 140-170: one training batch
TrainBatch ==
    /\ m_pc = "train"
    /\ train_losses < NumBatches(train_size, batch_size)
    /\ LET rows == BatchRows(train_size, batch_size, train_losses + 1)
       IN /\ params' = OptimizerStep(params)
          /\ train_losses' = train_losses + 1
          /\ end_poses' = Append(end_poses, rows)
          /\ target_poses' = Append(target_poses, rows)
    /\ UNCHANGED <<not_main, m_pc, model_index, num_epoch, batch_size, decoder_built, dataset_len,
                   train_size, test_size, epoch, policy_mode, best_val,
                   avg_train_losses, val_losses, avg_val_losses,
                   train_poses, train_targets, scatter,
                   checkpoint, writes>>

\* lines 172-184: np.concatenate raises ValueError on an empty list
TrainEnd ==
    /\ m_pc = "train"
    /\ train_losses = NumBatches(train_size, batch_size)
    /\ avg_train_losses' = avg_train_losses + 1
    /\ IF end_poses = <<>>
       THEN /\ m_pc' = "ValueError"
            /\ UNCHANGED <<not_main, train_poses, train_targets, policy_mode, val_losses,
                           end_poses, target_poses>>
       ELSE /\ m_pc' = "val"
            /\ train_poses' = Sum(end_poses)
            /\ train_targets' = Sum(target_poses)
            /\ policy_mode' = "eval"
            /\ val_losses' = <<>>
            /\ end_poses' = <<>>
            /\ target_poses' = <<>>
    /\ UNCHANGED <<not_main, model_index, num_epoch, batch_size, decoder_built, dataset_len,
                   train_size, test_size, epoch, params, best_val,
                   train_losses, avg_val_losses, scatter,
                   checkpoint, writes>>

\* lines 186-214: one validation batch; end_pose is appended at line 209 and
\* again at line 212
ValBatch ==
    /\ m_pc = "val"
    /\ Len(val_losses) < NumBatches(test_size, ValBatchSize)
    /\ LET rows == BatchRows(test_size, ValBatchSize, Len(val_losses) + 1)
       IN \E loss \in Losses :
            /\ val_losses' = Append(val_losses, loss)
            /\ end_poses' = end_poses \o <<rows, rows>>
            /\ target_poses' = Append(target_poses, rows)
    /\ UNCHANGED <<not_main, m_pc, model_index, num_epoch, batch_size, decoder_built, dataset_len,
                   train_size, test_size, epoch, params, policy_mode, best_val,
                   train_losses, avg_train_losses, avg_val_losses,
                   train_poses, train_targets, scatter,
                   checkpoint, writes>>

\* lines 216-236: the mean validation loss, the checkpoint decision, the plots
EpochEnd ==
    /\ m_pc = "val"
    /\ Len(val_losses) = NumBatches(test_size, ValBatchSize)
    /\ IF end_poses = <<>>
       THEN /\ m_pc' = "ValueError"
            /\ UNCHANGED <<not_main, avg_val_losses, best_val, checkpoint, writes, scatter, epoch>>
       ELSE LET avg_loss == Mean(val_losses)
                val_poses == Sum(end_poses)
                val_targets == Sum(target_poses)
            IN /\ m_pc' = "epoch"
               /\ avg_val_losses' = Append(avg_val_losses, avg_loss)
               /\ IF Less(avg_loss, best_val)
                  THEN /\ best_val' = avg_loss
                       /\ checkpoint' = [policy |-> params.policy]
                       /\ writes' = writes \cup {epoch + 1}
                  ELSE UNCHANGED <<best_val, checkpoint, writes>>
               /\ scatter' = [train |-> <<train_poses, train_targets>>,
                               val |-> <<val_poses, val_targets>>,
                               full |-> <<train_poses + val_poses,
                                          train_targets + val_targets>>]
               /\ epoch' = epoch + 1
    /\ UNCHANGED <<not_main, model_index, num_epoch, batch_size, decoder_built, dataset_len,
                   train_size, test_size, params, policy_mode,
                   train_losses, avg_train_losses, val_losses,
                   end_poses, target_poses, train_poses, train_targets>>

NextMain ==
    \/ SaveArguments
    \/ AssertModelIndex
    \/ BuildDecoder
    \/ LoadAndSplit
    \/ EpochBegin
    \/ TrainBatch
    \/ TrainEnd
    \/ ValBatch
    \/ EpochEnd

\* --------------------------------------------------------- parse_arguments
Arg(o, d) == [opt |-> o, dest |-> d]

\* lines 86-98
BehaviouralVaeArguments ==
    {Arg("--vae-name", "vae_name"), Arg("--latent-dim", "latent_dim"),
     Arg("--num_joints", "num_joints"), Arg("--num_actions", "num_actions"),
     Arg("--duration", "duration"), Arg("--conv", "conv"), Arg("--no-conv", "conv"),
     Arg("--conv-channel", "conv_channel"), Arg("--kernel-row", "kernel_row")}

\* lines 102-115
PolicyArguments ==
    {Arg("--folder-name", "folder_name"), Arg("--iterations", "iterations"),
     Arg("--batch-size", "batch_size"), Arg("--lr", "lr"), Arg("--debug", "debug"),
     Arg("--random-goal", "random_goal"), Arg("--test", "train")}

\* lines 119-120
GibsonArguments == {Arg("--g-name", "g_name"), Arg("--g-latent", "g_latent")}

\* line 123
DebugArguments == {Arg("--dataset-name", "dataset_name")}

\* lines 127-131
FeedforwardArguments ==
    {Arg("--random-goal", "random_goal"), Arg("--policy-name", "policy_name"),
     Arg("--num-steps", "num_steps"), Arg("--model-index", "model_index")}

\* the add_argument calls parse_arguments makes, lines 84-131
ParserArguments(f) ==
    (IF f.behavioural_vae THEN BehaviouralVaeArguments ELSE {})
    \cup (IF f.policy THEN PolicyArguments ELSE {})
    \cup (IF f.gibson THEN GibsonArguments ELSE {})
    \cup (IF f.debug THEN DebugArguments ELSE {})
    \cup (IF f.feedforward THEN FeedforwardArguments ELSE {})

\* argparse refuses an option string that is added twice: --random-goal is
\* added at line 112 and at line 127
ConflictingOptions(f) == f.policy /\ f.feedforward

\* the attributes of the Namespace that parser.parse_args() returns
Namespace(f) == {a.dest : a \in ParserArguments(f)}

\* the option strings the parser accepts
OptionStrings(f) == {a.opt : a \in ParserArguments(f)}

Flags == [behavioural_vae : BOOLEAN, policy : BOOLEAN, gibson : BOOLEAN,
          debug : BOOLEAN, feedforward : BOOLEAN]

\* line 240: parse_arguments(behavioural_vae=True, policy=True, gibson=True)
EntryFlags == [behavioural_vae |-> TRUE, policy |-> TRUE, gibson |-> TRUE,
               debug |-> FALSE, feedforward |-> FALSE]

\* the option strings a command line may give
CommandLineOptions == {"--model-index", "--policy-name", "--num-epoch", "--debug"}

NoArgs == {"<no Namespace>"}

\* the attributes of args that main reads, in the order it reads them; the
\* number is the line of the read
MainReads ==
    <<[attr |-> "policy_name", line |-> 84],
      [attr |-> "model_index", line |-> 89],
      [attr |-> "vae_name", line |-> 91],
      [attr |-> "latent_dim", line |-> 91],
      [attr |-> "num_actions", line |-> 91],
      [attr |-> "model_index", line |-> 92],
      [attr |-> "num_joints", line |-> 92],
      [attr |-> "g_name", line |-> 100],
      [attr |-> "fixed_camera", line |-> 100],
      [attr |-> "debug", line |-> 100],
      [attr |-> "fixed_camera", line |-> 104],
      [attr |-> "g_latent", line |-> 105],
      [attr |-> "latent_dim", line |-> 105],
      [attr |-> "lr", line |-> 111],
      [attr |-> "batch_size", line |-> 120],
      [attr |-> "num_processes", line |-> 120],
      [attr |-> "num_epoch", line |-> 129]>>

MainAttributes == {MainReads[i].attr : i \in 1..Len(MainReads)}

ArgsStart ==
    /\ a_pc = "parse_arguments"
    /\ flags \in Flags
    /\ argv \in SUBSET CommandLineOptions
    /\ args = NoArgs
    /\ read_i = 0

\* neither parse_arguments nor main is running
ArgsIdle ==
    /\ a_pc = "idle"
    /\ flags = EntryFlags
    /\ argv = {}
    /\ args = NoArgs
    /\ read_i = 0

\* lines 80-134: the parser is built, then the command line is parsed; an
\* option the parser does not know ends the process (SystemExit)
ParseArguments ==
    /\ a_pc = "parse_arguments"
    /\ IF ConflictingOptions(flags)
       THEN a_pc' = "ArgumentError" /\ UNCHANGED args
       ELSE IF ~(argv \subseteq OptionStrings(flags))
       THEN a_pc' = "SystemExit" /\ UNCHANGED args
       ELSE a_pc' = "main" /\ args' = Namespace(flags)
    /\ UNCHANGED <<not_args, flags, argv, read_i>>

\* one read of an attribute of args by main: a missing attribute raises
\* AttributeError
ReadAttribute ==
    /\ a_pc = "main"
    /\ read_i < Len(MainReads)
    /\ IF MainReads[read_i + 1].attr \in args
       THEN read_i' = read_i + 1 /\ UNCHANGED a_pc
       ELSE a_pc' = "AttributeError" /\ UNCHANGED read_i
    /\ UNCHANGED <<not_args, flags, argv, args>>

NextArgs ==
    \/ ParseArguments
    \/ ReadAttribute

\* ---------------------------------------------------------- specifications
LoadInit == LoadStart /\ MainIdle /\ ArgsIdle
DebugInit == DebugStart /\ MainIdle /\ ArgsIdle
MainInit == MainStart /\ LoadIdle /\ ArgsIdle
ArgsInit == ArgsStart /\ LoadIdle /\ MainIdle

SpecLoad == LoadInit /\ [][NextLoad]_vars
SpecDebug == DebugInit /\ [][NextDebug]_vars
SpecMain == MainInit /\ [][NextMain]_vars
SpecArgs == ArgsInit /\ [][NextArgs]_vars
\* the scheduling of main: a single thread that runs until it returns or raises
SpecMainFair == SpecMain /\ WF_vars(NextMain)

\* ------------------------------------------------------------------ claims
\* a < b of two finite quotients with positive denominators
Smaller(a, b) == a.num * b.den < b.num * a.den

SameTripletAsFirst(i) ==
    /\ FloatEq(camera_distances[i], camera_distances[1])
    /\ FloatEq(azimuths[i], azimuths[1])
    /\ FloatEq(elevations[i], elevations[1])

\* C2: in fixed-camera mode the selected samples are exactly those whose
\* normalized (distance, azimuth, elevation) equals the first sample's, and
\* inputs and targets are selected by the same index set.
C2_FixedCameraSelectsFirstTriplet ==
    (fixed_camera /\ l_pc \in {"debug", "returned"}) =>
        /\ \A i \in 1..Len(latents) :
             (latents[i] \in Range(inputs)) <=> SameTripletAsFirst(i)
        /\ inputs = target_coords

\* C3: with debug set and N >= 1 assembled samples, every drawn index is in
\* 0..N-1, the indexing does not fail, and 10 samples are returned, inputs
\* and targets taken at the same indices.
C3_DebugIndicesInBounds ==
    (debug /\ indices # <<>> /\ Len(latents) >= 1) =>
        /\ \A k \in 1..Len(indices) : 0 <= indices[k] /\ indices[k] < Len(latents)
        /\ l_pc # "IndexError"
        /\ Len(inputs) = DebugSamples
        /\ \A k \in 1..Len(indices) : inputs[k].latent = target_coords[k]

\* the normalization step maps the channel raw to the channel norm
NormalizedChannel(raw, norm) ==
    \A i \in 1..Len(raw) :
        /\ InUnit(norm[i])
        /\ (\A j \in 1..Len(raw) : raw[i] <= raw[j]) => IsZero(norm[i])
        /\ (\A j \in 1..Len(raw) : raw[i] >= raw[j]) => IsOne(norm[i])

NotConstant(raw) == \E i, j \in 1..Len(raw) : raw[i] # raw[j]

C5_LengthIsSumEveryMode ==
    l_pc = "returned" =>
        /\ Len(dataset.inputs) = Sum(data_files)
        /\ Len(dataset.target_coord) = Sum(data_files)

\* C5 as amended: with debug off, inputs and targets have the same number of
\* rows, at most the sum of the per-file sample counts, and exactly that sum
\* in variable-camera mode.
C5_LengthIsSumVariableMode ==
    l_pc = "returned" =>
        /\ Len(dataset.inputs) = Len(dataset.target_coord)
        /\ Len(dataset.inputs) <= Sum(data_files)
        /\ ~fixed_camera => Len(dataset.inputs) = Sum(data_files)

C5_Witness ==
    /\ l_pc = "returned"
    /\ ~fixed_camera
    /\ Len(data_files) = 2
    /\ Len(dataset.inputs) = 2
    /\ Len(dataset.target_coord) = 2

\* C6: with model_index <= 0 main reaches the assertion and stops there: the
\* decoder is never constructed, the dataset never loaded, no batch processed,
\* no checkpoint written, and nothing runs after the AssertionError.
C6_AssertionFailsFast ==
    /\ (model_index <= 0) ~> (m_pc = "AssertionError")
    /\ [](model_index <= 0 =>
            /\ m_pc \in {"save_arguments", "assert", "AssertionError"}
            /\ ~decoder_built
            /\ dataset_len = NotLoaded
            /\ train_losses = 0
            /\ val_losses = <<>>
            /\ params.policy = 0
            /\ checkpoint = NoFile
            /\ writes = {})
    /\ [][m_pc # "AssertionError"]_vars

C6_Witness ==
    /\ m_pc = "AssertionError"
    /\ model_index = 0
    /\ ~decoder_built

\* C7: the decoder's parameters keep the values they were loaded with; the
\* predictor's parameters change only in a training batch, never in a
\* validation phase; a checkpoint holds the parameters the epoch's training
\* left.
C7_OnlyPredictorUpdated ==
    /\ [](params.decoder = 0)
    /\ [][params' # params =>
             /\ m_pc = "train" /\ m_pc' = "train"
             /\ train_losses' = train_losses + 1
             /\ params'.decoder = params.decoder]_vars
    /\ [][writes' # writes =>
             /\ m_pc = "val"
             /\ checkpoint' = [policy |-> params.policy]
             /\ params' = params]_vars

C7_Witness ==
    /\ m_pc = "done"
    /\ params.policy >= 4
    /\ params.decoder = 0
    /\ Cardinality(writes) >= 2

Terminated == m_pc \in {"done", "AssertionError", "ValueError", "IndexError"}

\* C8: validation of an epoch starts after the last training batch of that
\* epoch, training of the next epoch after the validation and the checkpoint
\* decision of this one; the loop runs num_epoch epochs whatever the losses,
\* and main terminates.
C8_SequentialEpochs ==
    /\ [](m_pc = "val" =>
            /\ train_losses = NumBatches(train_size, batch_size)
            /\ avg_train_losses = epoch + 1
            /\ Len(avg_val_losses) = epoch)
    /\ [](m_pc = "train" =>
            /\ avg_train_losses = epoch
            /\ Len(avg_val_losses) = epoch
            /\ Len(val_losses) \in {0, NumBatches(test_size, ValBatchSize)})
    /\ [](m_pc \in {"train", "val"} => epoch < num_epoch)
    /\ [](m_pc = "done" =>
            /\ epoch = num_epoch
            /\ avg_train_losses = num_epoch
            /\ Len(avg_val_losses) = num_epoch)
    /\ <>Terminated

C8_Witness ==
    /\ m_pc = "done"
    /\ num_epoch >= 3
    /\ epoch = num_epoch
    /\ NumBatches(train_size, batch_size) >= 2
    /\ Cardinality(writes) = 1

\* C9: every predicted-position array handed to plot_scatter has as many rows
\* as the target array it is paired with: the training pair, the validation
\* pair and the combined pair.
C9_ScatterRowsAgree ==
    scatter # <<>> =>
        /\ scatter.train[1] = scatter.train[2]
        /\ scatter.val[1] = scatter.val[2]
        /\ scatter.full[1] = scatter.full[2]

\* C10: after parse_arguments(behavioural_vae=True, policy=True, gibson=True)
\* the Namespace defines every attribute main reads, and no read of args in
\* main raises AttributeError.
C10_EntryPointDefinesEveryAttribute ==
    (flags = EntryFlags /\ a_pc # "parse_arguments") =>
        /\ a_pc = "main" => MainAttributes \subseteq args
        /\ a_pc # "AttributeError"
Spec == SpecMain

====
